---- MODULE Spec2Model ----
(***************************************************************************)
(* Model of the listening-practice app: the App component (upload, the    *)
(* transcript request, the audio element, segment and continuous          *)
(* playback, object-URL cleanup) and the SentenceCard component (cloze    *)
(* hiding, learner input, reveal).                                        *)
(*                                                                         *)
(* Times are integers in hundredths of a second (5 s = 500).  Sentence    *)
(* and word indices are 0-based as in the source.  Strings that the code  *)
(* takes apart (sentence text, learner input) are sequences of one-        *)
(* character strings.  One action is one event handler together with the  *)
(* render and the effects React runs after it.                            *)
(***************************************************************************)
EXTENDS Integers, Sequences, FiniteSets, TLC

(* `null` of the nullable numbers and handles (File | null, string | null, *)
(* number | null); also findIndex's "not found".                           *)
Null == -1

(* ---------------------------- bounds ---------------------------------- *)
(* Files the user selects in one session (each selection gets a new id     *)
(* and a new object URL).                                                  *)
MaxUploads == 2
(* Longest sentence text, in characters, of the one-card transcripts.      *)
MaxTextLen == 3
(* Longest learner input, in characters.                                   *)
MaxInputLen == 1

(* ------------------------ program constants --------------------------- *)
SegmentBuffer == 50       \* 0.5 s pre-roll of playSegment
ContinuousBuffer == 20    \* 0.2 s look-ahead of continuous playback
ProbEasy == 2             \* 0.2, in tenths
ProbMedium == 4           \* 0.4
ProbHard == 6             \* 0.6

Difficulties == {"easy", "medium", "hard"}

(* ------------------------- bounded inputs ----------------------------- *)
(* Characters of texts and inputs: a lower- and an upper-case letter, one  *)
(* character of the punctuation set, the space.                            *)
Alphabet == {"h", "H", ",", " "}

Strings(n) == UNION {[1..k -> Alphabet] : k \in 0..n}

(* Outcomes of Math.random(), in tenths.                                   *)
RandomDraws == {1, 3, 5, 7}

Sentence(txt, s, e) == [text |-> txt, startTime |-> s, endTime |-> e]

(* Transcripts the service may answer with: the spec's example             *)
(* [{0,5},{5,10},{10,15}], one with a gap between its sentences and a      *)
(* first start inside the pre-roll, and the empty one.                     *)
ExampleTranscript ==
    << Sentence(<<"h", "h">>, 0, 500),
       Sentence(<<"H", "h">>, 500, 1000),
       Sentence(<<"h">>, 1000, 1500) >>

GapTranscript ==
    << Sentence(<<"h", "h">>, 20, 300),
       Sentence(<<"h">>, 400, 600) >>

Transcripts == {ExampleTranscript, GapTranscript, << >>}

(* Cursor positions the media element is observed at.                      *)
Times == {0, 250, 390, 480, 490, 500, 700, 1000, 1499, 1500}

(* The length of the media: the last of the observed positions.            *)
Duration == CHOOSE t \in Times : \A u \in Times : u <= t

VARIABLES
    audioFile,             \* useState<File | null>: id of the selected file
    audioSrc,              \* useState<string | null>: id of its object URL
    sentences,             \* useState<Sentence[]>
    processingState,       \* ProcessingState.status
    currentSentenceIndex,  \* useState<number | null>
    mode,                  \* 'study' | 'quiz'
    difficulty,            \* Difficulty
    endTimeRef,            \* useRef<number | null>
    audioCurrentTime,      \* audioRef.current.currentTime
    audioPaused,           \* audioRef.current.paused
    mounted,               \* the App component is mounted
    uploads,               \* number of files selected so far
    requests,              \* per selected file: where its async handler is
    revoked,               \* per object URL: how often it was revoked
    revealed,              \* per card: useState(false)
    userInputs,            \* per card: useState<{[key: number]: string}>
    hiddenIndices,         \* per card: the memoised Set<number>
    lastOp                 \* the handler that ran last, with what it was given

vars == << audioFile, audioSrc, sentences, processingState, currentSentenceIndex,
           mode, difficulty, endTimeRef, audioCurrentTime, audioPaused, mounted,
           uploads, requests, revoked, revealed, userInputs, hiddenIndices, lastOp >>

appVars == << audioFile, audioSrc, sentences, processingState, currentSentenceIndex,
              endTimeRef, audioCurrentTime, audioPaused, mounted,
              uploads, requests, revoked >>

cardVars == << revealed, userInputs, hiddenIndices >>

(* ------------------------------ helpers ------------------------------- *)
Max(a, b) == IF a >= b THEN a ELSE b

(* <audio ref={audioRef}> is rendered only in the branch with a file.      *)
AudioPresent == mounted /\ audioFile # Null

(* Array.prototype.findIndex: the FIRST 0-based position that satisfies    *)
(* the test, -1 when none does.                                           *)
RECURSIVE FindFrom(_, _, _)
FindFrom(sents, t, k) ==
    IF k > Len(sents) THEN Null
    ELSE IF t >= sents[k].startTime - ContinuousBuffer /\ t < sents[k].endTime
         THEN k - 1
         ELSE FindFrom(sents, t, k + 1)

FindIndex(sents, t) == FindFrom(sents, t, 1)

(* ------------------------- App: playback ------------------------------ *)
(* A seek without the clamp at 0.                                          *)
SeekTargetNoClamp(start) == start - SegmentBuffer

(* playSegment's seek position: Math.max(0, start - buffer).               *)
SeekTarget(start) == Max(0, start - SegmentBuffer)

(* An end test that misses the cursor standing exactly on the bound.       *)
SegmentDoneStrict(t, bound) == t > bound

(* handleTimeUpdate's test for the end of a segment.                       *)
SegmentDone(t, bound) == t >= bound

(* A handler without the early return of segment mode: short of the bound  *)
(* it goes on to the recomputation of continuous playback.                 *)
HandleTimeUpdateFallThrough(bound, t, paused, sents, cur) ==
    IF bound # Null /\ t >= bound
    THEN [paused |-> TRUE, endTime |-> Null, index |-> Null]
    ELSE IF ~paused /\ Len(sents) > 0
         THEN LET index == FindIndex(sents, t)
              IN [paused |-> paused, endTime |-> bound,
                  index |-> IF index # Null /\ index # cur THEN index ELSE cur]
         ELSE [paused |-> paused, endTime |-> bound, index |-> cur]

(* handleTimeUpdate on an audio element at cursor t: the values of         *)
(* audio.paused, endTimeRef.current and currentSentenceIndex it leaves.    *)
HandleTimeUpdate(bound, t, paused, sents, cur) ==
    IF bound # Null
    THEN IF SegmentDone(t, bound)
         THEN [paused |-> TRUE, endTime |-> Null, index |-> Null]
         ELSE [paused |-> paused, endTime |-> bound, index |-> cur]
    ELSE IF ~paused /\ Len(sents) > 0
         THEN LET index == FindIndex(sents, t)
              IN [paused |-> paused, endTime |-> bound,
                  index |-> IF index # Null /\ index # cur THEN index ELSE cur]
         ELSE [paused |-> paused, endTime |-> bound, index |-> cur]

(* The cards are rendered only with status 'success' and a non-empty list. *)
CardsRendered(status, sents) == status = "success" /\ Len(sents) > 0

CardIds(status, sents) ==
    IF CardsRendered(status, sents) THEN 0..(Len(sents) - 1) ELSE {}

(* A card's state right after it mounts in study mode (difficulty prop     *)
(* null): not revealed, no input, nothing hidden.                          *)
MountRevealed(status, sents) == [c \in CardIds(status, sents) |-> FALSE]
MountInputs(status, sents) == [c \in CardIds(status, sents) |-> << >>]
MountHidden(status, sents) == [c \in CardIds(status, sents) |-> {}]

(* A cleanup that revokes nothing.                                         *)
CleanupObjectURLLeak(old, rv) == rv

(* The cleanup of the [audioSrc] effect, run when audioSrc changes from    *)
(* old to new and at unmount: revokes the old URL when there is one.       *)
CleanupObjectURL(old, rv) ==
    IF old # Null THEN [rv EXCEPT ![old] = @ + 1] ELSE rv

Op(name, arg) == [op |-> name, arg |-> arg]

(* The file input is rendered only while no file is held.                  *)
Upload ==
    /\ mounted /\ audioFile = Null
    /\ uploads < MaxUploads
    /\ LET id == uploads + 1 IN
        /\ uploads' = id
        /\ audioFile' = id
        /\ audioSrc' = id
        /\ sentences' = << >>
        /\ processingState' = "processing"
        /\ currentSentenceIndex' = Null
        /\ endTimeRef' = Null
        /\ requests' = [requests EXCEPT ![id] = "base64"]
        /\ revoked' = IF audioSrc # id THEN CleanupObjectURL(audioSrc, revoked)
                      ELSE revoked
        /\ audioCurrentTime' = 0
        /\ audioPaused' = TRUE
        /\ revealed' = MountRevealed("processing", << >>)
        /\ userInputs' = MountInputs("processing", << >>)
        /\ hiddenIndices' = MountHidden("processing", << >>)
        /\ lastOp' = Op("upload", id)
    /\ UNCHANGED << mode, difficulty, mounted >>

(* The file dialog closed without a file: `if (!file) return`.             *)
UploadNoFile ==
    /\ mounted /\ audioFile = Null
    /\ lastOp' = Op("noFile", 0)
    /\ UNCHANGED << appVars, cardVars, mode, difficulty >>

(* await fileToBase64(file) resolves: the handler goes on to the service.  *)
FileRead(id) ==
    /\ requests[id] = "base64"
    /\ requests' = [requests EXCEPT ![id] = "service"]
    /\ lastOp' = Op("fileRead", id)
    /\ UNCHANGED << audioFile, audioSrc, sentences, processingState,
                    currentSentenceIndex, endTimeRef, audioCurrentTime, audioPaused,
                    mounted, uploads, revoked, cardVars, mode, difficulty >>

(* await processAudioFile(...) resolves with `result`.  The setters of an  *)
(* unmounted component do nothing.                                         *)
Resolve(id, result) ==
    /\ requests[id] = "service"
    /\ requests' = [requests EXCEPT ![id] = "done"]
    /\ lastOp' = Op("resolve", id)
    /\ IF mounted
       THEN /\ sentences' = result
            /\ processingState' = "success"
            /\ revealed' = MountRevealed("success", result)
            /\ userInputs' = MountInputs("success", result)
            /\ hiddenIndices' = MountHidden("success", result)
       ELSE UNCHANGED << sentences, processingState, cardVars >>
    /\ UNCHANGED << audioFile, audioSrc, currentSentenceIndex, endTimeRef,
                    audioCurrentTime, audioPaused, mounted, uploads, revoked,
                    mode, difficulty >>

(* Either await throws: the catch block.                                   *)
Reject(id) ==
    /\ requests[id] \in {"base64", "service"}
    /\ requests' = [requests EXCEPT ![id] = "done"]
    /\ lastOp' = Op("reject", id)
    /\ IF mounted
       THEN /\ processingState' = "error"
            /\ revealed' = MountRevealed("error", sentences)
            /\ userInputs' = MountInputs("error", sentences)
            /\ hiddenIndices' = MountHidden("error", sentences)
       ELSE UNCHANGED << processingState, cardVars >>
    /\ UNCHANGED << audioFile, audioSrc, sentences, currentSentenceIndex, endTimeRef,
                    audioCurrentTime, audioPaused, mounted, uploads, revoked,
                    mode, difficulty >>

(* The 'Change' button; the audio element is paused, rewound and, with the *)
(* file gone, unmounted.                                                   *)
Change ==
    /\ mounted /\ audioFile # Null
    /\ audioFile' = Null
    /\ audioSrc' = Null
    /\ sentences' = << >>
    /\ processingState' = "idle"
    /\ audioPaused' = TRUE
    /\ audioCurrentTime' = 0
    /\ revoked' = CleanupObjectURL(audioSrc, revoked)
    /\ revealed' = MountRevealed("idle", << >>)
    /\ userInputs' = MountInputs("idle", << >>)
    /\ hiddenIndices' = MountHidden("idle", << >>)
    /\ lastOp' = Op("change", 0)
    /\ UNCHANGED << currentSentenceIndex, endTimeRef, mounted, uploads, requests,
                    mode, difficulty >>

(* The play button of card i: onPlay(sentence.startTime, sentence.endTime, *)
(* index).  Without an audio element the call does nothing.                *)
PlaySegment(i) ==
    /\ mounted /\ CardsRendered(processingState, sentences)
    /\ i \in 0..(Len(sentences) - 1)
    /\ lastOp' = Op("playSegment", i)
    /\ IF AudioPresent
       THEN /\ audioCurrentTime' = SeekTarget(sentences[i + 1].startTime)
            /\ endTimeRef' = sentences[i + 1].endTime
            /\ currentSentenceIndex' = i
            /\ audioPaused' = FALSE
       ELSE UNCHANGED << audioCurrentTime, endTimeRef, currentSentenceIndex,
                         audioPaused >>
    /\ UNCHANGED << audioFile, audioSrc, sentences, processingState, mounted,
                    uploads, requests, revoked, cardVars, mode, difficulty >>

(* A timeupdate event of the audio element.                                *)
TimeUpdate ==
    /\ AudioPresent
    /\ LET r == HandleTimeUpdate(endTimeRef, audioCurrentTime, audioPaused,
                                 sentences, currentSentenceIndex) IN
        /\ audioPaused' = r.paused
        /\ endTimeRef' = r.endTime
        /\ currentSentenceIndex' = r.index
    /\ lastOp' = Op("timeUpdate", endTimeRef)
    /\ UNCHANGED << audioFile, audioSrc, sentences, processingState,
                    audioCurrentTime, mounted, uploads, requests, revoked,
                    cardVars, mode, difficulty >>

(* The media element plays on to cursor t; at the end of the media it      *)
(* pauses itself.                                                          *)
MediaAdvance(t) ==
    /\ AudioPresent /\ ~audioPaused
    /\ t > audioCurrentTime
    /\ audioCurrentTime' = t
    /\ audioPaused' = (t = Duration)
    /\ lastOp' = Op("media", 0)
    /\ UNCHANGED << audioFile, audioSrc, sentences, processingState,
                    currentSentenceIndex, endTimeRef, mounted, uploads, requests,
                    revoked, cardVars, mode, difficulty >>

(* The user operates the element's own controls: play, pause, seek.        *)
UserPlay ==
    /\ AudioPresent /\ audioPaused
    /\ audioPaused' = FALSE
    /\ audioCurrentTime' = IF audioCurrentTime = Duration THEN 0 ELSE audioCurrentTime
    /\ lastOp' = Op("media", 0)
    /\ UNCHANGED << audioFile, audioSrc, sentences, processingState,
                    currentSentenceIndex, endTimeRef, mounted, uploads, requests,
                    revoked, cardVars, mode, difficulty >>

UserPause ==
    /\ AudioPresent /\ ~audioPaused
    /\ audioPaused' = TRUE
    /\ lastOp' = Op("media", 0)
    /\ UNCHANGED << audioFile, audioSrc, sentences, processingState,
                    currentSentenceIndex, endTimeRef, audioCurrentTime, mounted,
                    uploads, requests, revoked, cardVars, mode, difficulty >>

UserSeek(t) ==
    /\ AudioPresent
    /\ t # audioCurrentTime
    /\ audioCurrentTime' = t
    /\ lastOp' = Op("media", 0)
    /\ UNCHANGED << audioFile, audioSrc, sentences, processingState,
                    currentSentenceIndex, endTimeRef, audioPaused, mounted, uploads,
                    requests, revoked, cardVars, mode, difficulty >>

(* The App component unmounts: the effect's cleanup runs a last time.      *)
Teardown ==
    /\ mounted
    /\ mounted' = FALSE
    /\ revoked' = CleanupObjectURL(audioSrc, revoked)
    /\ lastOp' = Op("teardown", 0)
    /\ UNCHANGED << audioFile, audioSrc, sentences, processingState,
                    currentSentenceIndex, endTimeRef, audioCurrentTime, audioPaused,
                    uploads, requests, cardVars, mode, difficulty >>

Init ==
    /\ audioFile = Null
    /\ audioSrc = Null
    /\ sentences = << >>
    /\ processingState = "idle"
    /\ currentSentenceIndex = Null
    /\ mode = "study"
    /\ difficulty = "easy"
    /\ endTimeRef = Null
    /\ audioCurrentTime = 0
    /\ audioPaused = TRUE
    /\ mounted = TRUE
    /\ uploads = 0
    /\ requests = [id \in 1..MaxUploads |-> "none"]
    /\ revoked = [id \in 1..MaxUploads |-> 0]
    /\ revealed = << >>
    /\ userInputs = << >>
    /\ hiddenIndices = << >>
    /\ lastOp = Op("init", 0)

(* The App component in study mode (the mode and difficulty controls are   *)
(* exercised in SpecCard).                                                 *)
Next ==
    \/ Upload
    \/ UploadNoFile
    \/ \E id \in 1..MaxUploads : FileRead(id)
    \/ \E id \in 1..MaxUploads, result \in Transcripts : Resolve(id, result)
    \/ \E id \in 1..MaxUploads : Reject(id)
    \/ Change
    \/ \E i \in 0..2 : PlaySegment(i)
    \/ TimeUpdate
    \/ \E t \in Times : MediaAdvance(t)
    \/ UserPlay
    \/ UserPause
    \/ \E t \in Times : UserSeek(t)
    \/ Teardown

Spec == Init /\ [][Next]_vars

(* ---------------------- SentenceCard: cloze --------------------------- *)
(* The difficulty prop of a card: null in study mode.                      *)
NoDifficulty == "null"

DifficultyProp(m, d) == IF m = "quiz" THEN d ELSE NoDifficulty

(* String.prototype.split(' '): the pieces between single spaces (an       *)
(* empty piece between two adjacent spaces, [""] for the empty string).    *)
RECURSIVE SplitFrom(_, _, _)
SplitFrom(text, k, word) ==
    IF k > Len(text) THEN << word >>
    ELSE IF text[k] = " "
         THEN << word >> \o SplitFrom(text, k + 1, << >>)
         ELSE SplitFrom(text, k + 1, Append(word, text[k]))

Split(text) == SplitFrom(text, 1, << >>)

(* The words memo of card c.                                               *)
Words(c) == Split(sentences[c + 1].text)

Probability(d) ==
    CASE d = "easy" -> ProbEasy
      [] d = "medium" -> ProbMedium
      [] d = "hard" -> ProbHard
      [] OTHER -> 0

(* A test without the length condition.                                   *)
ShouldHideAnyLength(word, draw, probability) == draw < probability

(* The test of the forEach: Math.random() < probability && word.length > 1 *)
ShouldHide(word, draw, probability) == draw < probability /\ Len(word) > 1

(* The hiddenIndices memo for the words and the difficulty prop, draws[i]  *)
(* being the outcome of Math.random() for word i.                          *)
HiddenIndices(words, d, draws) ==
    IF d = NoDifficulty THEN {}
    ELSE {i \in 0..(Len(words) - 1) :
            ShouldHide(words[i + 1], draws[i], Probability(d))}

(* String.prototype.trim, toLowerCase and the replace of every character  *)
(* of the punctuation class by the empty string.  (The class also holds    *)
(* the backquote, which a TLA+ string cannot hold; no text or input of     *)
(* Alphabet contains it.)                                                  *)
Whitespace == {" "}

RECURSIVE TrimStart(_)
TrimStart(s) ==
    IF Len(s) > 0 /\ s[1] \in Whitespace THEN TrimStart(Tail(s)) ELSE s

RECURSIVE TrimEnd(_)
TrimEnd(s) ==
    IF Len(s) > 0 /\ s[Len(s)] \in Whitespace
    THEN TrimEnd(SubSeq(s, 1, Len(s) - 1)) ELSE s

Trim(s) == TrimEnd(TrimStart(s))

ToLowerCase(s) == [k \in 1..Len(s) |-> IF s[k] = "H" THEN "h" ELSE s[k]]

Punctuation ==
    {".", ",", "/", "#", "!", "$", "%", "^", "&", "*", ";", ":", "{", "}",
     "=", "-", "_", "~", "(", ")"}

NotPunctuation(ch) == ch \notin Punctuation

StripPunctuation(s) == SelectSeq(s, NotPunctuation)

Clean(s) == StripPunctuation(ToLowerCase(Trim(s)))

(* userInputs[index] || ''                                                 *)
InputOf(inputs, i) == IF i \in DOMAIN inputs THEN inputs[i] ELSE << >>

IsCorrect(inputs, words, i) == Clean(InputOf(inputs, i)) = Clean(words[i + 1])

(* isCorrect(i) ? 'correct' : (userInputs[i] ? 'wrong' : 'empty'); the     *)
(* empty string is falsy.                                                  *)
BlankStatus(inputs, words, i) ==
    IF IsCorrect(inputs, words, i) THEN "correct"
    ELSE IF InputOf(inputs, i) # << >> THEN "wrong" ELSE "empty"

(* A reset effect that leaves the typed input in place.                   *)
ResetInputsKeep(old) == old

(* The effect on [difficulty]: setRevealed(false); setUserInputs({}).      *)
ResetRevealed(old) == [c \in DOMAIN old |-> FALSE]

ResetInputs(old) == [c \in DOMAIN old |-> << >>]

(* The sets hiddenIndices can come out as, over all outcomes of the draws. *)
PossibleHidden(words, d) ==
    {HiddenIndices(words, d, draws) :
        draws \in [0..(Len(words) - 1) -> RandomDraws]}

(* Some card holds a revealed flag or a typed input.                      *)
Dirty ==
    \E c \in DOMAIN revealed : revealed[c] \/ userInputs[c] # << >>

(* The render after the difficulty prop changed to d: every card runs its  *)
(* reset effect and recomputes hiddenIndices with fresh random draws.      *)
PropChanged(d) ==
    /\ revealed' = ResetRevealed(revealed)
    /\ userInputs' = ResetInputs(userInputs)
    /\ LET possible == [c \in DOMAIN revealed |-> PossibleHidden(Words(c), d)]
           outcomes == UNION {possible[c] : c \in DOMAIN revealed}
       IN hiddenIndices' \in
            {h \in [DOMAIN revealed -> outcomes] :
               \A c \in DOMAIN revealed : h[c] \in possible[c]}

(* The Study Mode / Quiz Mode buttons.                                     *)
SetMode(m) ==
    /\ mounted /\ CardsRendered(processingState, sentences)
    /\ mode' = m
    /\ lastOp' = Op("setMode", IF Dirty THEN 1 ELSE 0)
    /\ IF DifficultyProp(m, difficulty) # DifficultyProp(mode, difficulty)
       THEN PropChanged(DifficultyProp(m, difficulty))
       ELSE UNCHANGED cardVars
    /\ UNCHANGED << appVars, difficulty >>

(* The difficulty selector, rendered in quiz mode; onChange fires when     *)
(* another option is chosen.                                               *)
SetDifficulty(d) ==
    /\ mounted /\ CardsRendered(processingState, sentences)
    /\ mode = "quiz"
    /\ d # difficulty
    /\ difficulty' = d
    /\ lastOp' = Op("setDifficulty", IF Dirty THEN 1 ELSE 0)
    /\ PropChanged(DifficultyProp(mode, d))
    /\ UNCHANGED << appVars, mode >>

(* The eye button of card c, rendered when the difficulty prop is set.     *)
ToggleReveal(c) ==
    /\ mounted /\ c \in DOMAIN revealed
    /\ DifficultyProp(mode, difficulty) # NoDifficulty
    /\ revealed' = [revealed EXCEPT ![c] = ~@]
    /\ lastOp' = Op("toggleReveal", c)
    /\ UNCHANGED << appVars, mode, difficulty, userInputs, hiddenIndices >>

(* handleInputChange(i, value) of card c; the input of a blank is rendered *)
(* for a hidden word while the card is not revealed.                       *)
InputChange(c, i, value) ==
    /\ mounted /\ c \in DOMAIN revealed
    /\ DifficultyProp(mode, difficulty) # NoDifficulty
    /\ ~revealed[c]
    /\ i \in hiddenIndices[c]
    /\ userInputs' = [userInputs EXCEPT ![c] =
                        [k \in DOMAIN @ \cup {i} |-> IF k = i THEN value ELSE @[k]]]
    /\ lastOp' = Op("inputChange", c)
    /\ UNCHANGED << appVars, mode, difficulty, revealed, hiddenIndices >>

(* Transcripts of the card specification: every one-sentence transcript    *)
(* with a text of at most MaxTextLen characters, and one of two cards.     *)
TwoCardTranscript ==
    << Sentence(<<"h", "h", " ", ",">>, 0, 500),
       Sentence(<<",", ",", " ", "H">>, 500, 1000) >>

CardTranscripts ==
    {<< Sentence(t, 0, 500) >> : t \in Strings(MaxTextLen)} \cup {TwoCardTranscript}

(* The state after the first upload's request resolved with a transcript   *)
(* of CardTranscripts.                                                     *)
InitCard ==
    /\ audioFile = 1
    /\ audioSrc = 1
    /\ sentences \in CardTranscripts
    /\ processingState = "success"
    /\ currentSentenceIndex = Null
    /\ mode = "study"
    /\ difficulty = "easy"
    /\ endTimeRef = Null
    /\ audioCurrentTime = 0
    /\ audioPaused = TRUE
    /\ mounted = TRUE
    /\ uploads = 1
    /\ requests = [id \in 1..MaxUploads |-> IF id = 1 THEN "done" ELSE "none"]
    /\ revoked = [id \in 1..MaxUploads |-> 0]
    /\ revealed = MountRevealed("success", sentences)
    /\ userInputs = MountInputs("success", sentences)
    /\ hiddenIndices = MountHidden("success", sentences)
    /\ lastOp = Op("resolve", 1)

NextCard ==
    \/ \E m \in {"study", "quiz"} : SetMode(m)
    \/ \E d \in Difficulties : SetDifficulty(d)
    \/ \E c \in 0..1 : ToggleReveal(c)
    \/ \E c \in 0..1, i \in 0..MaxTextLen, value \in Strings(MaxInputLen) :
         InputChange(c, i, value)

SpecCard == InitCard /\ [][NextCard]_vars

(* ============================ properties ============================== *)

(* C1: with an audio element present, right after playSegment(start, end,  *)
(* i) of card i the cursor is at max(0, start - 0.5 s), the segment end    *)
(* bound is end, the active sentence index is i and the audio is playing,  *)
(* whatever the state before the call was.                                 *)
C1_PlaySegmentPost ==
    (lastOp.op = "playSegment" /\ AudioPresent) =>
        LET s == sentences[lastOp.arg + 1] IN
        /\ audioCurrentTime = (IF s.startTime - 50 > 0 THEN s.startTime - 50 ELSE 0)
        /\ currentSentenceIndex = lastOp.arg
        /\ endTimeRef = s.endTime
        /\ ~audioPaused

(* playSegment of the first card of the gap transcript (start 0.2 s): the  *)
(* seek is clamped to 0.                                                   *)
C1_Witness ==
    /\ lastOp = Op("playSegment", 0)
    /\ AudioPresent
    /\ sentences = GapTranscript
    /\ audioCurrentTime = 0
    /\ endTimeRef = 300
    /\ currentSentenceIndex = 0
    /\ ~audioPaused

(* C2: a time update that runs with the segment end bound set and a cursor *)
(* at or past the bound pauses the audio, clears the bound and sets the    *)
(* active sentence index to null in that one step; with the cursor short   *)
(* of the bound it changes none of the three.                              *)
C2_SegmentEnd ==
    [][ (lastOp'.op = "timeUpdate" /\ AudioPresent /\ endTimeRef # Null) =>
          IF audioCurrentTime >= endTimeRef
          THEN /\ audioPaused'
               /\ endTimeRef' = Null
               /\ currentSentenceIndex' = Null
          ELSE UNCHANGED << audioPaused, endTimeRef, currentSentenceIndex >> ]_vars

(* A time update that saw the bound 5 s with the cursor exactly on it.     *)
C2_Witness ==
    /\ lastOp = Op("timeUpdate", 500)
    /\ audioCurrentTime = 500
    /\ audioPaused
    /\ endTimeRef = Null
    /\ currentSentenceIndex = Null

(* C3: in continuous playback of [{0,5},{5,10},{10,15}], after a time      *)
(* update the active index is 0 before 4.8 s, 1 from 4.8 s on (so at 4.8,  *)
(* 4.9, 5 and 7 s) and 2 at 14.99 s.                                       *)
C3_LookAheadIndex ==
    (/\ lastOp = Op("timeUpdate", Null)
     /\ AudioPresent /\ ~audioPaused /\ endTimeRef = Null
     /\ sentences = ExampleTranscript) =>
        /\ (audioCurrentTime < 480 => currentSentenceIndex = 0)
        /\ (audioCurrentTime >= 480 /\ audioCurrentTime <= 700
               => currentSentenceIndex = 1)
        /\ (audioCurrentTime = 1499 => currentSentenceIndex = 2)

(* C4: the outcome of a request that is not the one of the most recently   *)
(* selected file is discarded: when it resolves or rejects, the sentence   *)
(* list and the processing status stay as they are.                        *)
C4_StaleOutcomeDiscarded ==
    [][ (lastOp'.op \in {"resolve", "reject"} /\ lastOp'.arg # uploads) =>
          UNCHANGED << sentences, processingState >> ]_vars

(* C5: while a transcript request is outstanding, the processing status is *)
(* 'processing'.                                                           *)
C5_ProcessingWhileOutstanding ==
    (mounted /\ \E id \in 1..MaxUploads : requests[id] \in {"base64", "service"})
        => processingState = "processing"

(* C9: every object URL created so far has been revoked exactly once,      *)
(* except the one that is the current audio source of the mounted          *)
(* component, which has not been revoked; after teardown every created URL *)
(* has been revoked exactly once.                                          *)
C9_RevokedExactlyOnce ==
    \A u \in 1..MaxUploads :
        revoked[u] = IF u <= uploads /\ ~(mounted /\ audioSrc = u) THEN 1 ELSE 0

(* After teardown, with one URL superseded by 'Change' and a second one    *)
(* current at teardown.                                                    *)
C9_Witness ==
    /\ ~mounted
    /\ uploads >= 2
    /\ audioSrc = 2
    /\ revoked[1] = 1
    /\ revoked[2] = 1

(* C10: while the segment end bound is set, every step other than a        *)
(* playSegment, an upload, or the time update that finds the cursor at or  *)
(* past the bound leaves the active sentence index and the bound as they   *)
(* are: a time update short of the bound never recomputes the index.       *)
C10_SegmentKeepsTarget ==
    [][ (/\ endTimeRef # Null
         /\ lastOp'.op \notin {"playSegment", "upload"}
         /\ ~(lastOp'.op = "timeUpdate" /\ audioCurrentTime >= endTimeRef)) =>
          UNCHANGED << currentSentenceIndex, endTimeRef >> ]_vars

(* A time update during the pre-roll of the second sentence of the example *)
(* (cursor 4.5 s, inside the first sentence): the index is still 1.        *)
C10_Witness ==
    /\ lastOp = Op("timeUpdate", 1000)
    /\ sentences = ExampleTranscript
    /\ audioCurrentTime = 450
    /\ ~audioPaused
    /\ endTimeRef = 1000
    /\ currentSentenceIndex = 1

(* C6: a step that changes the difficulty leaves every card not revealed   *)
(* and with an empty input mapping.                                        *)
C6_DifficultyChangeResets ==
    [][ difficulty' # difficulty =>
          \A c \in DOMAIN revealed' :
              /\ revealed'[c] = FALSE
              /\ userInputs'[c] = << >> ]_vars

(* A difficulty change made while some card was revealed or held input,    *)
(* with two cards on screen.                                               *)
C6_Witness ==
    /\ lastOp = Op("setDifficulty", 1)
    /\ DOMAIN revealed = {0, 1}
    /\ \A c \in DOMAIN revealed : ~revealed[c] /\ userInputs[c] = << >>

(* C7: a hidden position is always the position of a word longer than one *)
(* character, and in study mode nothing is hidden.                         *)
C7_HiddenOnlyLongWords ==
    \A c \in DOMAIN hiddenIndices :
        /\ \A i \in hiddenIndices[c] :
              /\ i \in 0..(Len(Words(c)) - 1)
              /\ Len(Words(c)[i + 1]) > 1
        /\ (mode = "study" => hiddenIndices[c] = {})

(* Quiz mode, a card with a hidden word and a word of one character.       *)
C7_Witness ==
    /\ mode = "quiz"
    /\ \E c \in DOMAIN hiddenIndices :
          /\ hiddenIndices[c] # {}
          /\ \E k \in 1..Len(Words(c)) : Len(Words(c)[k]) <= 1

(* C8: the status of every blank is 'empty' exactly when nothing is typed, *)
(* 'correct' exactly when input and word are equal after normalisation,    *)
(* 'wrong' exactly when something is typed and the normalised values       *)
(* differ.                                                                 *)
C8_BlankStatus ==
    \A c \in DOMAIN hiddenIndices : \A i \in hiddenIndices[c] :
        LET input == InputOf(userInputs[c], i)
            word == Words(c)[i + 1]
            status == BlankStatus(userInputs[c], Words(c), i)
        IN /\ (status = "empty") <=> (input = << >>)
           /\ (status = "correct") <=> (Clean(input) = Clean(word))
           /\ (status = "wrong") <=> (input # << >> /\ Clean(input) # Clean(word))

(* C11: whenever the active sentence index is not null, an audio file is   *)
(* held and the index is a position 0..n-1 of the sentence list held.      *)
C11_ActiveIndexValid ==
    currentSentenceIndex # Null =>
        /\ audioFile # Null
        /\ currentSentenceIndex \in 0..(Len(sentences) - 1)

====
